---- MODULE Spec2Model ----
(***************************************************************************)
(* A model of NetCoreTool (the .NET Core SDK gate and the streamed command *)
(* runner of the SQL Database Projects extension) and of                   *)
(* ServerTreeDragAndDrop (drag and drop of the server tree).               *)
(*                                                                         *)
(* Text is modelled as a sequence of one-character strings, so that        *)
(* String(data), split(/\r?\n/), join('') and semver parsing are computed  *)
(* character by character.  The JavaScript value undefined is the          *)
(* one-element sequence Undefined, which no text equals.                   *)
(***************************************************************************)
EXTENDS Integers, Sequences, FiniteSets, TLC

\* ------------------------------------------------------------------ bounds
\* The number of calls (findOrInstallNetCore, runDotnetCommand or
\* runStreamedCommand) one behaviour makes.
MaxCalls == 2

\* -------------------------------------------------------------------- text
Undefined == << "undefined" >>
NL == "\n"
CR == "\r"

RECURSIVE Join(_)
\* Array.prototype.join(''): the chunks concatenated in array order.
Join(chunks) ==
    IF chunks = << >> THEN << >> ELSE Head(chunks) \o Join(Tail(chunks))

RECURSIVE SplitAt(_, _, _)
\* The pieces of s between separator characters, cur being the piece so far.
SplitAt(s, sep, cur) ==
    IF s = << >> THEN << cur >>
    ELSE IF Head(s) = sep THEN << cur >> \o SplitAt(Tail(s), sep, << >>)
    ELSE SplitAt(Tail(s), sep, Append(cur, Head(s)))

StripCR(line) ==
    IF line # << >> /\ line[Len(line)] = CR
    THEN SubSeq(line, 1, Len(line) - 1)
    ELSE line

\* String.prototype.split(/\r?\n/): split at every \n, a \r right before the
\* \n belonging to the separator.  The piece after the last \n is kept even
\* when it is empty.
SplitLines(s) ==
    LET raw == SplitAt(s, NL, << >>)
    IN [i \in 1..Len(raw) |-> IF i < Len(raw) THEN StripCR(raw[i]) ELSE raw[i]]

\* ------------------------------------------------------------------ semver
Digits == {"0", "1", "2", "3", "4", "5", "6", "7", "8", "9"}
Alphabet == <<"a", "b", "c", "d", "e", "f", "g", "h", "i", "j", "k", "l", "m",
             "n", "o", "p", "q", "r", "s", "t", "u", "v", "w", "x", "y", "z">>
Letters == {Alphabet[i] : i \in 1..Len(Alphabet)}
Whitespace == {" ", "\t", NL, CR}

DigitVal(ch) ==
    CASE ch = "0" -> 0 [] ch = "1" -> 1 [] ch = "2" -> 2 [] ch = "3" -> 3
      [] ch = "4" -> 4 [] ch = "5" -> 5 [] ch = "6" -> 6 [] ch = "7" -> 7
      [] ch = "8" -> 8 [] ch = "9" -> 9

RECURSIVE TrimLeft(_)
TrimLeft(s) ==
    IF s # << >> /\ Head(s) \in Whitespace THEN TrimLeft(Tail(s)) ELSE s

RECURSIVE TrimRight(_)
TrimRight(s) ==
    IF s # << >> /\ s[Len(s)] \in Whitespace
    THEN TrimRight(SubSeq(s, 1, Len(s) - 1))
    ELSE s

\* String.prototype.trim()
Trim(s) == TrimLeft(TrimRight(s))

\* NUMERICIDENTIFIER: 0|[1-9]\d*
IsNumericId(id) ==
    /\ id # << >>
    /\ \A i \in 1..Len(id) : id[i] \in Digits
    /\ (Len(id) > 1 => id[1] # "0")

RECURSIVE NumVal(_)
NumVal(id) ==
    IF id = << >> THEN 0
    ELSE 10 * NumVal(SubSeq(id, 1, Len(id) - 1)) + DigitVal(id[Len(id)])

\* PRERELEASEIDENTIFIER: a numeric identifier, or [0-9A-Za-z-]* holding a
\* non-digit.
IsPreId(id) ==
    /\ id # << >>
    /\ \A i \in 1..Len(id) : id[i] \in Digits \cup Letters \cup {"-"}
    /\ ((\A i \in 1..Len(id) : id[i] \in Digits) => IsNumericId(id))

\* The index of the first ch in s, 0 when there is none.
IndexOf(s, ch) ==
    IF \E i \in 1..Len(s) : s[i] = ch
    THEN CHOOSE i \in 1..Len(s) : s[i] = ch /\ \A j \in 1..(i - 1) : s[j] # ch
    ELSE 0

NoVersion == [ok |-> FALSE, major |-> 0, minor |-> 0, patch |-> 0, pre |-> << >>]

\* new SemVer(version): a TypeError for a non-string or for text that is not
\* v?MAJOR.MINOR.PATCH(-PRERELEASE)?(+BUILD)? once trimmed (ok = FALSE).
ParseSemVer(version) ==
    IF version = Undefined THEN NoVersion
    ELSE
    LET t0 == Trim(version)
        t1 == IF t0 # << >> /\ Head(t0) = "v" THEN Tail(t0) ELSE t0
        plus == IndexOf(t1, "+")
        t2 == IF plus > 0 THEN SubSeq(t1, 1, plus - 1) ELSE t1
        buildOk == plus = 0 \/ plus < Len(t1)
        dash == IndexOf(t2, "-")
        main == IF dash > 0 THEN SubSeq(t2, 1, dash - 1) ELSE t2
        pre == IF dash > 0 THEN SplitAt(SubSeq(t2, dash + 1, Len(t2)), ".", << >>)
               ELSE << >>
        parts == SplitAt(main, ".", << >>)
    IN IF /\ buildOk
          /\ Len(parts) = 3
          /\ \A i \in 1..3 : IsNumericId(parts[i])
          /\ \A i \in 1..Len(pre) : IsPreId(pre[i])
       THEN [ok |-> TRUE, major |-> NumVal(parts[1]), minor |-> NumVal(parts[2]),
             patch |-> NumVal(parts[3]), pre |-> pre]
       ELSE NoVersion

CmpInt(a, b) == IF a < b THEN -1 ELSE IF a > b THEN 1 ELSE 0

\* ASCII order of the characters a prerelease identifier may hold.
CharRank(ch) ==
    IF ch = "-" THEN 0
    ELSE IF ch \in Digits THEN 1 + DigitVal(ch)
    ELSE 11 + IndexOf(Alphabet, ch)

RECURSIVE CmpText(_, _)
CmpText(a, b) ==
    IF a = << >> /\ b = << >> THEN 0
    ELSE IF a = << >> THEN -1
    ELSE IF b = << >> THEN 1
    ELSE IF CharRank(Head(a)) # CharRank(Head(b))
         THEN CmpInt(CharRank(Head(a)), CharRank(Head(b)))
    ELSE CmpText(Tail(a), Tail(b))

\* compareIdentifiers: numeric identifiers by value and below the others,
\* the others by ASCII order.
CompareIdentifiers(a, b) ==
    LET an == IsNumericId(a)
        bn == IsNumericId(b)
    IN IF an /\ bn THEN CmpInt(NumVal(a), NumVal(b))
       ELSE IF an THEN -1
       ELSE IF bn THEN 1
       ELSE CmpText(a, b)

RECURSIVE ComparePreIds(_, _)
ComparePreIds(a, b) ==
    IF a = << >> /\ b = << >> THEN 0
    ELSE IF b = << >> THEN 1
    ELSE IF a = << >> THEN -1
    ELSE IF Head(a) = Head(b) THEN ComparePreIds(Tail(a), Tail(b))
    ELSE CompareIdentifiers(Head(a), Head(b))

\* SemVer.comparePre: a version with a prerelease is below the one without.
ComparePre(a, b) ==
    IF a # << >> /\ b = << >> THEN -1
    ELSE IF a = << >> /\ b # << >> THEN 1
    ELSE IF a = << >> /\ b = << >> THEN 0
    ELSE ComparePreIds(a, b)

\* SemVer.compare: major, minor, patch, then the prerelease.
CompareSemVer(a, b) ==
    IF a.major # b.major THEN CmpInt(a.major, b.major)
    ELSE IF a.minor # b.minor THEN CmpInt(a.minor, b.minor)
    ELSE IF a.patch # b.patch THEN CmpInt(a.patch, b.patch)
    ELSE ComparePre(a.pre, b.pre)

\* semver.gte(a, b) throws when either side does not parse.
SemverThrows(a, b) == ~ParseSemVer(a).ok \/ ~ParseSemVer(b).ok

SemverGte(a, b) == CompareSemVer(ParseSemVer(a), ParseSemVer(b)) >= 0

\* ------------------------------------------------------------- environment
\* export const enum netCoreFindError
netCoreNotPresent == "netCoreNotPresent"
netCoreVersionNotSupported == "netCoreVersionNotSupported"
noError == "noError"

winPlatform == "win32"
macPlatform == "darwin"
linuxPlatform == "linux"
Platforms == {winPlatform, macPlatform, linuxPlatform, "sunos"}

NextCoreNonWindowsDefaultPath == << "/usr/local/share" >>
HomeDir == << "~" >>
ProgramW6432 == << "%ProgramW6432%" >>
ProgramFilesX86 == << "%ProgramFiles(x86)%" >>
ProgramFiles == << "%ProgramFiles%" >>
CustomLocation == << "/opt/custom/dotnet" >>

\* path.join(folderPath, 'dotnet')
DotnetIn(folderPath) == folderPath \o << "/dotnet" >>

\* The paths fs.existsSync may find.
KnownPaths ==
    {CustomLocation, DotnetIn(NextCoreNonWindowsDefaultPath), DotnetIn(HomeDir),
     DotnetIn(ProgramW6432), DotnetIn(ProgramFilesX86), DotnetIn(ProgramFiles)}

\* What one call finds around it: the platform, the configured
\* netCoreSDKLocation (Undefined when unset) and the paths that exist.
Env(platform, configured, exists) ==
    [platform |-> platform, configured |-> configured, exists |-> exists]

Environments ==
    { Env(linuxPlatform, CustomLocation, {CustomLocation}),
      Env(linuxPlatform, CustomLocation, {DotnetIn(NextCoreNonWindowsDefaultPath)}),
      Env(macPlatform, Undefined, {DotnetIn(HomeDir)}),
      Env(winPlatform, Undefined, {DotnetIn(HomeDir)}),
      Env("sunos", Undefined, KnownPaths) }

getDotnetPathIfPresent(env, folderPath) ==
    IF folderPath # Undefined /\ DotnetIn(folderPath) \in env.exists
    THEN DotnetIn(folderPath)
    ELSE Undefined

\* a || b on paths
OrElse(a, b) == IF a # Undefined THEN a ELSE b

defaultWindowsLocation(env) ==
    OrElse(getDotnetPathIfPresent(env, ProgramW6432),
           OrElse(getDotnetPathIfPresent(env, ProgramFilesX86),
                  getDotnetPathIfPresent(env, ProgramFiles)))

defaultnonWindowsLocation(env) ==
    OrElse(getDotnetPathIfPresent(env, NextCoreNonWindowsDefaultPath),
           OrElse(getDotnetPathIfPresent(env, HomeDir), Undefined))

defaultLocalInstallLocationByDistribution(env) ==
    IF env.platform = winPlatform THEN defaultWindowsLocation(env)
    ELSE IF env.platform = macPlatform \/ env.platform = linuxPlatform
         THEN defaultnonWindowsLocation(env)
    ELSE Undefined

netcoreInstallLocation(env) ==
    OrElse(env.configured, defaultLocalInstallLocationByDistribution(env))

isNetCoreInstallationPresent(env) ==
    /\ netcoreInstallLocation(env) # Undefined
    /\ netcoreInstallLocation(env) \in env.exists

\* ------------------------------------------------------------------ inputs
\* What the `dotnet --version` child does: the chunks its stdout delivers,
\* or a spawn-level failure (an 'error' event and no output).
VersionOutputs ==
    { [fail |-> FALSE, chunks |-> << >>],
      [fail |-> FALSE, chunks |-> << <<"3", ".", "1", ".", "0", NL>> >>],
      [fail |-> FALSE, chunks |-> << <<"3", ".", "0", ".", "9", NL>> >>],
      [fail |-> FALSE, chunks |-> << <<"3", ".", "2", ".", "0">> >>],
      [fail |-> FALSE, chunks |-> << <<"3", ".", "1", ".", "0", "-", "r", "c", NL>> >>],
      [fail |-> FALSE, chunks |-> << <<"3", ".", "1", ".">>, <<"4", NL>> >>],
      [fail |-> TRUE, chunks |-> << >>] }

Null == << "null" >>

\* What a streamed command does: its stdout and stderr chunks, each stream
\* in order, and how it ends: an exit code, a signal, or a spawn-level
\* failure (an 'error' event).
Hello == [fail |-> FALSE, out |-> << <<"h", "e", "l", "l", "o", NL>> >>,
          err |-> << >>, code |-> <<"0">>, signal |-> Null]
Killed == [fail |-> FALSE, out |-> << >>, err |-> << >>,
           code |-> Null, signal |-> <<"SIGTERM">>]
Mixed == [fail |-> FALSE, out |-> << <<"a", CR, NL, "b">>, <<"c", NL>> >>,
          err |-> << <<"W", NL>> >>, code |-> <<"0">>, signal |-> Null]
Failing == [fail |-> FALSE, out |-> << <<"x">> >>, err |-> << <<"E">> >>,
            code |-> <<"1">>, signal |-> Null]
NoSpawn == [fail |-> TRUE, out |-> << >>, err |-> << >>,
            code |-> Null, signal |-> Null]

\* The commands runDotnetCommand is given in this model, and the ones
\* runStreamedCommand is given directly.
DotnetScripts == {Hello, Failing, NoSpawn}
StreamScripts == {Hello, Killed, Mixed, Failing, NoSpawn}

CommandTitles == {Undefined, <<"Build">>}
Argument == << "build" >>
UpdateNetCoreLocation == "UpdateNetCoreLocation"
InstallNetCore == "InstallNetCore"
DoNotAskAgain == "DoNotAskAgain"
Dismissed == "dismissed"
PromptResults == {UpdateNetCoreLocation, InstallNetCore, DoNotAskAgain, Dismissed}

\* ------------------------------------------------------------------- state
Calls == 1..MaxCalls

VARIABLES
    netCoreSdkInstalledVersion, \* NetCoreTool.netCoreSdkInstalledVersion
    netCoreError,               \* NetCoreTool.netCoreError
    netCoreDoNotAsk,            \* configuration sqlDatabaseProjects.netCoreDoNotAsk
    outputChannel,              \* NetCoreTool._outputChannel: the lines appended
    used,                       \* whether this NetCoreTool instance was called yet
    call                        \* the calls: position, locals, child processes

toolVars == << netCoreSdkInstalledVersion, netCoreError, netCoreDoNotAsk,
               outputChannel, used, call >>

\* ---------------------------------------------------------- the server tree
\* The elements of the server tree: connection groups (the root group, which
\* is shown as the tree itself and is never dragged, among them), connection
\* profiles, and a node that is neither.
UNSAVED_GROUP_ID == "unsaved"
RootGroup == "ROOT"
Groups == {"g1", "g2", "g3", UNSAVED_GROUP_ID}
Profiles == {"p1"}
OtherNode == "node"
Draggable == Groups \cup Profiles
DropTargets == Groups \cup {RootGroup} \cup Profiles

\* ConnectionGroup.name: two groups of different parents may share a name.
GroupName(g) ==
    CASE g = "g1" -> "A" [] g = "g2" -> "B" [] g = "g3" -> "A"
      [] g = UNSAVED_GROUP_ID -> "Unsaved" [] g = RootGroup -> "ROOT"

DRAG_OVER_ACCEPT_BUBBLE_DOWN == "accept, bubble down"
DRAG_OVER_REJECT == "reject"

VARIABLES
    parent,          \* getParent() of every group and profile
    isInDragAndDrop, \* TreeUpdateUtils.isInDragAndDrop
    dnd              \* the tree's drag: the dragged element, the drop element,
                     \* the last onDragOver reaction and the last drop's effect

treeVars == << parent, isInDragAndDrop, dnd >>

vars == << toolVars, treeVars >>

RECURSIVE Up(_, _, _)
\* The groups from group g up to the root group, g among them, along par.
Up(g, seen, par) ==
    IF g = RootGroup \/ g \in seen THEN seen
    ELSE Up(par[g], seen \cup {g}, par)

\* source.isAncestorOf(node): a parent of node, or a parent of one, is source.
isAncestorOf(source, node, par) ==
    node \in Draggable /\ source \in Up(par[node], {}, par)

\* getTargetGroup: the parent of a profile, the group itself otherwise.
getTargetGroup(targetElement, par) ==
    IF targetElement \in Profiles THEN par[targetElement] ELSE targetElement

\* oldParent.equals(targetConnectionProfileGroup)
GroupEquals(a, b) == a = b

\* isDropAllowed
isDropAllowed(targetConnectionProfileGroup, oldParent, source) ==
    LET isDropToItself == /\ source \in Groups
                          /\ GroupName(source) = GroupName(targetConnectionProfileGroup)
        isDropToSameLevel == GroupEquals(oldParent, targetConnectionProfileGroup)
        isUnsavedDrag == source \in Groups /\ source = UNSAVED_GROUP_ID
    IN ~isDropToSameLevel /\ ~isDropToItself /\ ~isUnsavedDrag

\* The group is source itself or one below it.
OnOwnSubtree(source, group, par) ==
    source \in Groups /\ source \in Up(group, {}, par)

NoElement == "none"
NoReaction == [reaction |-> "none", onOwnSubtree |-> FALSE]
NoDrop == [moved |-> "none", underOwnSubtree |-> FALSE]

TreeInit ==
    /\ parent = [e \in Draggable |->
                    CASE e = "g3" -> "g2" [] e = "p1" -> "g1" [] OTHER -> RootGroup]
    /\ isInDragAndDrop = FALSE
    /\ dnd = [source |-> NoElement, target |-> NoElement,
              over |-> NoReaction, drop |-> NoDrop]

NoMessage == [kind |-> "none", version |-> Undefined]

\* A call that has not started.  Beside the position (pc) and the locals of
\* the async functions, a call records what it observed (present, flagRead,
\* supported, reported, written, prompts, message, picked), for the
\* properties below.
IdleCall ==
    [pc |-> "idle", kind |-> "none", fresh |-> FALSE,
     flagAtStart |-> FALSE, loc |-> Undefined, present |-> FALSE,
     flagRead |-> "unread",
     vspawned |-> FALSE, vfail |-> FALSE, vout |-> << >>, reported |-> << >>,
     written |-> Undefined,
     compared |-> Undefined, supported |-> "none",
     prompts |-> 0, message |-> NoMessage, picked |-> "none",
     gate |-> "none",
     spawned |-> FALSE, script |-> NoSpawn, sout |-> << >>, serr |-> << >>,
     exited |-> FALSE, stdoutData |-> << >>,
     outcome |-> "none", error |-> NoMessage, result |-> << >>]

InFlight == {"verWait", "prompt", "streaming"}

\* The locals of a call that returned, threw or hangs are gone; what is left
\* of it is the stdout of its version child still to be delivered.
Forget(r) ==
    IF r.pc \in {"done", "hung", "gone"}
    THEN [IdleCall EXCEPT !.pc = "gone", !.vout = r.vout]
    ELSE r

Line(c, header, text, newline) ==
    [call |-> c, header |-> header, text |-> text, nl |-> newline]

\* A new NetCoreTool, the do-not-ask-again setting off and nothing in the
\* channel.  (A session that starts with the setting on is the state after a
\* call that turned it on and NewNetCoreTool.)
Init ==
    /\ netCoreSdkInstalledVersion = Undefined
    /\ netCoreError = noError
    /\ netCoreDoNotAsk = FALSE
    /\ outputChannel = << >>
    /\ used = FALSE
    /\ call = [c \in Calls |-> IdleCall]
    /\ TreeInit

\* ------------------------------------------------------- the code's pieces
MinVersion == <<"3", ".", "1", ".", "0">>

\* onExit's listener: semver.gte(this.netCoreSdkInstalledVersion!, '3.1.0')
ExitIsSupported(version) == SemverGte(version, MinVersion)

\* A TypeError out of semver.gte leaves the listener before resolve(): the
\* promise onExit returned never settles.
ExitThrows(version) == SemverThrows(version, MinVersion)

\* The condition without its configuration test.
ShouldPromptAlways(present, supported, doNotAsk) == ~present \/ ~supported

\* The condition with the configuration test inverted (=== true).
ShouldPromptInverted(present, supported, doNotAsk) ==
    (~present \/ ~supported) /\ doNotAsk = TRUE

\* findOrInstallNetCore's condition, the checks known:
\* (!present || !supported) && config[NetCoreDoNotAskAgainKey] !== true
ShouldPrompt(present, supported, doNotAsk) ==
    (~present \/ ~supported) /\ doNotAsk # TRUE

\* The message showInstallDialog shows.
InstallDialogMessage(err, version) ==
    IF err = netCoreNotPresent
    THEN [kind |-> "NetCoreInstallationConfirmation", version |-> Undefined]
    ELSE [kind |-> "NetCoreSupportedVersionInstallationConfirmation",
          version |-> version]

\* A runDotnetCommand that throws the version error whatever the error kind.
GateErrorOfVersion(err, version) ==
    [kind |-> "NetCoreSupportedVersionInstallationConfirmation",
     version |-> version]

\* The error runDotnetCommand throws when the gate returned false.
GateError(err, version) ==
    IF err = netCoreNotPresent
    THEN [kind |-> "NetCoreInstallationConfirmation", version |-> Undefined]
    ELSE [kind |-> "NetCoreSupportedVersionInstallationConfirmation",
          version |-> version]

\* A gate that reports success once the user has suppressed the prompt.
AfterDialogSuppressPasses(picked) == picked = DoNotAskAgain

\* What findOrInstallNetCore returns once the dialog is over.
AfterDialog(picked) == FALSE

\* A dialog that forgets to save the setting.
ConfigNotSaved(picked, doNotAsk) == doNotAsk

\* showInstallDialog's last branch: config.update(NetCoreDoNotAskAgainKey,
\* true, Global) when the user picked DoNotAskAgain.
ConfigAfterDialog(picked, doNotAsk) ==
    IF picked = DoNotAskAgain THEN TRUE ELSE doNotAsk

\* isNetCoreVersionSupported without its try/catch.
UncaughtVersionError == [rethrown |-> TRUE, returns |-> "undefined"]

\* isNetCoreVersionSupported's catch: the rejection of onExit ends there and
\* the function returns undefined.
CaughtVersionError == [rethrown |-> FALSE, returns |-> "undefined"]

\* utils.getQuotedPath(path.join(location, dotnet)) + ' ' + options.argument
Command(location, argument) == location \o << "/dotnet", " " >> \o argument

\* An exit listener that tests `if (code)`: exit code 0 takes the signal branch.
ExitLineTruthy(c, code, signal) ==
    IF code # Null /\ code # <<"0">>
    THEN << Line(c, "exited with code: ", code, TRUE) >>
    ELSE << Line(c, "exited with signal: ", signal, TRUE) >>

\* The exit listener's line: the code when there is one, else the signal.
ExitLine(c, code, signal) ==
    IF code # Null
    THEN << Line(c, "exited with code: ", code, TRUE) >>
    ELSE << Line(c, "exited with signal: ", signal, TRUE) >>

\* outputDataChunk: one line of the sink per piece of the chunk.
outputDataChunk(c, data, header) ==
    LET lines == SplitLines(data)
    IN [i \in 1..Len(lines) |-> Line(c, header, lines[i], TRUE)]

\* The stdout listener's stdoutData.push(data.toString()).
PushStdout(stdoutData, data) == Append(stdoutData, data)

\* A stderr listener that captures its chunk too.
PushStderrCaptured(stdoutData, data) == Append(stdoutData, data)

\* The stderr listener leaves stdoutData alone.
PushStderr(stdoutData, data) == stdoutData

\* runStreamedCommand up to `await child`: the echo, the spawn, the listeners.
StartStream(c, r, command, script) ==
    [call |-> [r EXCEPT !.pc = "streaming", !.spawned = TRUE, !.script = script,
                        !.sout = script.out, !.serr = script.err],
     lines |-> << Line(c, "> ", command, TRUE) >>]

\* runDotnetCommand from the gate's answer on.
AfterGate(c, r, gate, err, version, script) ==
    IF ~gate
    THEN [call |-> [r EXCEPT !.pc = "done", !.gate = "false",
                             !.outcome = "rejected",
                             !.error = GateError(err, version)],
          lines |-> << >>]
    ELSE IF r.loc = Undefined
    THEN \* path.join(undefined, dotnet) throws a TypeError
         [call |-> [r EXCEPT !.pc = "done", !.gate = "true",
                             !.outcome = "rejected",
                             !.error = [kind |-> "TypeError", version |-> Undefined]],
          lines |-> << >>]
    ELSE StartStream(c, [r EXCEPT !.gate = "true"], Command(r.loc, Argument), script)

\* findOrInstallNetCore returns gate to its caller.
Returned(c, r, gate, err, version, script) ==
    IF r.kind = "find"
    THEN [call |-> [r EXCEPT !.pc = "done",
                             !.gate = IF gate THEN "true" ELSE "false"],
          lines |-> << >>]
    ELSE AfterGate(c, r, gate, err, version, script)

\* findOrInstallNetCore from its condition on, the checks known.
Gate(c, r, present, supported, err, version, script) ==
    LET \* && reads the configuration only when a check failed
        read == IF present /\ supported THEN r.flagRead
                ELSE IF netCoreDoNotAsk = TRUE THEN "true" ELSE "false"
    IN IF ShouldPrompt(present, supported, netCoreDoNotAsk)
       THEN [call |-> [r EXCEPT !.pc = "prompt", !.flagRead = read,
                                !.prompts = @ + 1,
                                !.message = InstallDialogMessage(err, version)],
             lines |-> << >>]
       ELSE Returned(c, [r EXCEPT !.flagRead = read], TRUE, err, version, script)

\* ----------------------------------------------------------------- actions
Startable(c) ==
    /\ call[c].pc = "idle"
    /\ \A d \in Calls : d < c => call[d].pc # "idle"

\* No other call is between its start and its end.
Sequential(c) == \A d \in Calls \ {c} : call[d].pc \notin InFlight

Put(c, r) == [d \in Calls |-> IF d = c THEN r ELSE Forget(call[d])]

\* No code reads the channel, so the lines of the calls that are over are
\* dropped with their locals: the channel holds the lines of the calls under
\* way.
Kept == SelectSeq(outputChannel, LAMBDA l : call[l.call].pc \in InFlight)

\* The commands a call may go on to run: only runDotnetCommand runs one.
ScriptsOf(kind) == IF kind = "run" THEN DotnetScripts ELSE {NoSpawn}

\* findOrInstallNetCore up to its first await, for either caller.
Enter(c, kind, env, titleLines) ==
    LET present == isNetCoreInstallationPresent(env)
        err == IF present THEN noError ELSE netCoreNotPresent
        r0 == [IdleCall EXCEPT !.kind = kind, !.fresh = ~used,
                               !.flagAtStart = netCoreDoNotAsk,
                               !.loc = netcoreInstallLocation(env),
                               !.present = present]
    IN /\ used' = TRUE
       /\ netCoreError' = err
       /\ UNCHANGED << netCoreSdkInstalledVersion, netCoreDoNotAsk >>
       /\ IF present
          THEN \* isNetCoreVersionSupported up to `await this.onExit(child)`
               \E vo \in VersionOutputs :
               /\ call' = Put(c, [r0 EXCEPT !.pc = "verWait", !.vspawned = TRUE,
                                            !.vfail = vo.fail, !.vout = vo.chunks,
                                            !.reported = Join(vo.chunks)])
               /\ outputChannel' = Kept \o titleLines
          ELSE \E script \in ScriptsOf(kind) :
               LET g == Gate(c, r0, FALSE, FALSE, err, netCoreSdkInstalledVersion, script)
               IN /\ call' = Put(c, g.call)
                  /\ outputChannel' = Kept \o titleLines \o g.lines

FindOrInstallNetCore(c) ==
    /\ Startable(c)
    /\ \E env \in Environments : Enter(c, "find", env, << >>)

RunDotnetCommand(c) ==
    /\ Startable(c)
    /\ \E env \in Environments : \E title \in CommandTitles :
          Enter(c, "run", env,
                IF title # Undefined THEN << Line(c, "[ ", title, TRUE) >> ELSE << >>)

\* The version child's stdout listener.  (written: what the listener of this
\* call last stored, for as long as the call is remembered.)
VersionData(c) ==
    /\ call[c].vout # << >>
    /\ netCoreSdkInstalledVersion' = Head(call[c].vout)
    /\ call' = [call EXCEPT ![c].vout = Tail(@),
                            ![c].written = IF call[c].pc = "gone" THEN @
                                           ELSE Head(call[c].vout)]
    /\ UNCHANGED << netCoreError, netCoreDoNotAsk, outputChannel, used >>

\* The version child's 'exit': onExit's listener and, when it resolves, the
\* rest of isNetCoreVersionSupported and of findOrInstallNetCore.
VersionExit(c) ==
    /\ call[c].pc = "verWait"
    /\ ~call[c].vfail
    /\ LET version == netCoreSdkInstalledVersion
           r == [call[c] EXCEPT !.compared = version]
       IN IF ExitThrows(version)
          THEN /\ call' = [call EXCEPT ![c] = [r EXCEPT !.pc = "hung"]]
               /\ UNCHANGED << netCoreError, outputChannel >>
          ELSE \E script \in ScriptsOf(r.kind) :
               LET isSupported == ExitIsSupported(version)
                   err == IF ~isSupported THEN netCoreVersionNotSupported
                          ELSE netCoreError
                   g == Gate(c, [r EXCEPT !.supported =
                                     IF isSupported THEN "true" ELSE "false"],
                             TRUE, isSupported, err, version, script)
               IN /\ netCoreError' = err
                  /\ call' = [call EXCEPT ![c] = g.call]
                  /\ outputChannel' = outputChannel \o g.lines
    /\ UNCHANGED << netCoreSdkInstalledVersion, netCoreDoNotAsk, used >>

\* The version child's 'error': onExit rejects, isNetCoreVersionSupported
\* catches and returns undefined.
VersionError(c) ==
    /\ call[c].pc = "verWait"
    /\ call[c].vfail
    /\ IF CaughtVersionError.rethrown
       THEN /\ call' = [call EXCEPT ![c] =
                           [@ EXCEPT !.pc = "done", !.outcome = "rejected",
                                     !.error = [kind |-> "SpawnError",
                                                version |-> Undefined]]]
            /\ UNCHANGED outputChannel
       ELSE \E script \in ScriptsOf(call[c].kind) :
            LET g == Gate(c, [call[c] EXCEPT !.supported = CaughtVersionError.returns],
                          TRUE, FALSE, netCoreError, netCoreSdkInstalledVersion, script)
            IN /\ call' = [call EXCEPT ![c] = g.call]
               /\ outputChannel' = outputChannel \o g.lines
    /\ UNCHANGED << netCoreSdkInstalledVersion, netCoreError, netCoreDoNotAsk, used >>

\* The user answers the dialog (or dismisses it): the rest of
\* showInstallDialog, then findOrInstallNetCore's `return false`.
InstallDialogAnswered(c) ==
    /\ call[c].pc = "prompt"
    /\ \E picked \in PromptResults : \E script \in ScriptsOf(call[c].kind) :
       LET g == Returned(c, [call[c] EXCEPT !.picked = picked], AfterDialog(picked),
                         netCoreError, netCoreSdkInstalledVersion, script)
       IN /\ netCoreDoNotAsk' = ConfigAfterDialog(picked, netCoreDoNotAsk)
          /\ call' = [call EXCEPT ![c] = g.call]
          /\ outputChannel' = outputChannel \o g.lines
    /\ UNCHANGED << netCoreSdkInstalledVersion, netCoreError, used >>

\* runStreamedCommand called directly.
RunStreamedCommand(c) ==
    /\ Startable(c)
    /\ \E script \in StreamScripts :
       LET g == StartStream(c, [IdleCall EXCEPT !.kind = "stream"],
                            << "tool", " " >> \o Argument, script)
       IN /\ call' = Put(c, g.call)
          /\ outputChannel' = Kept \o g.lines
    /\ UNCHANGED << netCoreSdkInstalledVersion, netCoreError, netCoreDoNotAsk, used >>

\* The streamed child's stdout listener.
StreamStdout(c) ==
    /\ call[c].pc = "streaming"
    /\ call[c].sout # << >>
    /\ LET data == Head(call[c].sout)
       IN /\ call' = [call EXCEPT ![c].sout = Tail(@),
                                  ![c].stdoutData = PushStdout(@, data)]
          /\ outputChannel' = outputChannel \o outputDataChunk(c, data, "stdout: ")
    /\ UNCHANGED << netCoreSdkInstalledVersion, netCoreError, netCoreDoNotAsk, used >>

\* The streamed child's stderr listener.
StreamStderr(c) ==
    /\ call[c].pc = "streaming"
    /\ call[c].serr # << >>
    /\ LET data == Head(call[c].serr)
       IN /\ call' = [call EXCEPT ![c].serr = Tail(@),
                                  ![c].stdoutData = PushStderr(@, data)]
          /\ outputChannel' = outputChannel \o outputDataChunk(c, data, "stderr: ")
    /\ UNCHANGED << netCoreSdkInstalledVersion, netCoreError, netCoreDoNotAsk, used >>

\* The streamed child's 'exit' listener.  Node emits 'exit' once the process
\* ended, whether or not its stdio streams were read to their end.
StreamExit(c) ==
    /\ call[c].pc = "streaming"
    /\ ~call[c].script.fail
    /\ ~call[c].exited
    /\ call' = [call EXCEPT ![c].exited = TRUE]
    /\ outputChannel' = outputChannel \o
                            ExitLine(c, call[c].script.code, call[c].script.signal)
    /\ UNCHANGED << netCoreSdkInstalledVersion, netCoreError, netCoreDoNotAsk, used >>

\* runDotnetCommand's catch around runStreamedCommand: the line it adds
\* (append, no line end) before it rethrows.
ErroredOut(c, r, cause) ==
    IF r.kind = "run"
    THEN << Line(c, "errored out: ", cause, FALSE) >>
    ELSE << >>

\* `await child` ends at the child's 'close', the process gone and both
\* streams read to their end: it resolves for exit code 0 and rejects for
\* another code or a signal.  runStreamedCommand then returns
\* stdoutData.join('').
StreamClose(c) ==
    /\ call[c].pc = "streaming"
    /\ call[c].exited
    /\ call[c].sout = << >>
    /\ call[c].serr = << >>
    /\ LET r == call[c]
           cause == IF r.script.code # Null THEN r.script.code ELSE r.script.signal
       IN IF r.script.code = <<"0">>
          THEN /\ call' = [call EXCEPT ![c] = [r EXCEPT !.pc = "done",
                                                        !.outcome = "resolved",
                                                        !.result = Join(r.stdoutData)]]
               /\ UNCHANGED outputChannel
          ELSE /\ call' = [call EXCEPT ![c] =
                              [r EXCEPT !.pc = "done", !.outcome = "rejected",
                                        !.error = [kind |-> "ProcessError",
                                                   version |-> cause]]]
               /\ outputChannel' = outputChannel \o ErroredOut(c, r, cause)
    /\ UNCHANGED << netCoreSdkInstalledVersion, netCoreError, netCoreDoNotAsk, used >>

\* The streamed child's 'error': `await child` rejects.
StreamError(c) ==
    /\ call[c].pc = "streaming"
    /\ call[c].script.fail
    /\ call' = [call EXCEPT ![c] =
                   [@ EXCEPT !.pc = "done", !.outcome = "rejected",
                             !.error = [kind |-> "SpawnError", version |-> Undefined]]]
    /\ outputChannel' = outputChannel \o ErroredOut(c, call[c], << "spawn" >>)
    /\ UNCHANGED << netCoreSdkInstalledVersion, netCoreError, netCoreDoNotAsk, used >>

\* new NetCoreTool(): the field initialisers.  The calls and the children of
\* the instance before it cannot reach the new one.
NewNetCoreTool ==
    /\ used
    /\ \A c \in Calls : call[c].pc \notin InFlight
    /\ \E c \in Calls : call[c].pc = "idle"
    /\ netCoreSdkInstalledVersion' = Undefined
    /\ netCoreError' = noError
    /\ used' = FALSE
    /\ call' = [c \in Calls |-> [Forget(call[c]) EXCEPT !.vout = << >>]]
    /\ outputChannel' = Kept
    /\ UNCHANGED netCoreDoNotAsk

\* ---------------------------------------------------------- specifications
\* The gate and runDotnetCommand, one call after the other.
Next ==
    \/ \E c \in Calls : Sequential(c) /\ FindOrInstallNetCore(c)
          /\ UNCHANGED treeVars
    \/ \E c \in Calls : Sequential(c) /\ RunDotnetCommand(c)
          /\ UNCHANGED treeVars
    \/ \E c \in Calls : VersionData(c) /\ UNCHANGED treeVars
    \/ \E c \in Calls : VersionExit(c) /\ UNCHANGED treeVars
    \/ \E c \in Calls : VersionError(c) /\ UNCHANGED treeVars
    \/ \E c \in Calls : InstallDialogAnswered(c) /\ UNCHANGED treeVars
    \/ \E c \in Calls : StreamStdout(c) /\ UNCHANGED treeVars
    \/ \E c \in Calls : StreamStderr(c) /\ UNCHANGED treeVars
    \/ \E c \in Calls : StreamExit(c) /\ UNCHANGED treeVars
    \/ \E c \in Calls : StreamClose(c) /\ UNCHANGED treeVars
    \/ \E c \in Calls : StreamError(c) /\ UNCHANGED treeVars
    \/ NewNetCoreTool /\ UNCHANGED treeVars

Spec == Init /\ [][Next]_vars

\* runStreamedCommand alone, one call after the other.
StreamNext ==
    \/ \E c \in Calls : Sequential(c) /\ RunStreamedCommand(c)
          /\ UNCHANGED treeVars
    \/ \E c \in Calls : StreamStdout(c) /\ UNCHANGED treeVars
    \/ \E c \in Calls : StreamStderr(c) /\ UNCHANGED treeVars
    \/ \E c \in Calls : StreamExit(c) /\ UNCHANGED treeVars
    \/ \E c \in Calls : StreamClose(c) /\ UNCHANGED treeVars
    \/ \E c \in Calls : StreamError(c) /\ UNCHANGED treeVars

StreamSpec == Init /\ [][StreamNext]_vars

\* At most one other call is between its start and its end.
Overlapping(c) ==
    Cardinality({d \in Calls \ {c} : call[d].pc \in InFlight}) <= 1

\* The inputs of the interleaved calls: the version child prints 3.0.9 or
\* 3.2.0 or fails to spawn, the installation location is the configured one
\* or none, the user picks InstallNetCore or DoNotAskAgain in the dialog, and
\* the command runDotnetCommand goes on to run fails to spawn.
RaceReports ==
    { << >>, <<"3", ".", "0", ".", "9", NL>>, <<"3", ".", "2", ".", "0">> }

RaceInputs(c) ==
    /\ call[c].reported \in RaceReports
    /\ call[c].loc \in {CustomLocation, Undefined}
    /\ call[c].picked \in {"none", InstallNetCore, DoNotAskAgain}
    /\ call[c].script = NoSpawn

\* The gate and runDotnetCommand, a call starting while another one awaits
\* its version child, its dialog or its command: nothing in NetCoreTool
\* holds a second call back.
RaceNext ==
    \/ \E c \in Calls : Overlapping(c) /\ FindOrInstallNetCore(c) /\ RaceInputs(c)'
          /\ UNCHANGED treeVars
    \/ \E c \in Calls : Overlapping(c) /\ RunDotnetCommand(c) /\ RaceInputs(c)'
          /\ UNCHANGED treeVars
    \/ \E c \in Calls : VersionData(c) /\ UNCHANGED treeVars
    \/ \E c \in Calls : VersionExit(c) /\ RaceInputs(c)' /\ UNCHANGED treeVars
    \/ \E c \in Calls : VersionError(c) /\ RaceInputs(c)'
          /\ UNCHANGED treeVars
    \/ \E c \in Calls : InstallDialogAnswered(c) /\ RaceInputs(c)'
          /\ UNCHANGED treeVars
    \/ \E c \in Calls : StreamError(c) /\ UNCHANGED treeVars

RaceSpec == Init /\ [][RaceNext]_vars

\* --------------------------------------------------- ServerTreeDragAndDrop
\* An onDragOver whose group branch tests only source.id !== targetElement.id.
canDragOverNoAncestorCheck(source, targetElement, canChange, par) ==
    IF targetElement \in Profiles \cup Groups \cup {RootGroup}
    THEN IF source \in Profiles THEN canChange
         ELSE IF source \in Groups THEN source # targetElement
              ELSE TRUE
    ELSE FALSE

\* onDragOver's canDragOver.  canChange is what
\* canChangeConnectionConfig(source, targetGroup.id) answers.
canDragOver(source, targetElement, canChange, par) ==
    IF targetElement \in Profiles \cup Groups \cup {RootGroup}
    THEN IF source \in Profiles THEN canChange
         ELSE IF source \in Groups
              THEN source # targetElement /\ ~isAncestorOf(source, targetElement, par)
              ELSE TRUE
    ELSE FALSE

\* onDragStart: the tree starts dragging an element.
OnDragStart(source) ==
    /\ dnd.source = NoElement
    /\ isInDragAndDrop' = TRUE
    /\ dnd' = [dnd EXCEPT !.source = source, !.target = NoElement]
    /\ UNCHANGED parent

\* onDragOver for the element the pointer is over.  The tree keeps that
\* element as its drop element when the reaction accepts, and none otherwise.
OnDragOver(targetElement, canChange) ==
    /\ dnd.source # NoElement
    /\ LET accepts == canDragOver(dnd.source, targetElement, canChange, parent)
       IN dnd' = [dnd EXCEPT
                    !.target = IF accepts THEN targetElement ELSE NoElement,
                    !.over = [reaction |-> IF accepts THEN DRAG_OVER_ACCEPT_BUBBLE_DOWN
                                           ELSE DRAG_OVER_REJECT,
                              onOwnSubtree |->
                                  /\ targetElement # OtherNode
                                  /\ OnOwnSubtree(dnd.source,
                                                  getTargetGroup(targetElement, parent),
                                                  parent)]]
    /\ UNCHANGED << parent, isInDragAndDrop >>

\* drop, which the tree calls with its drop element:
\* changeGroupIdForConnection / changeGroupIdForConnectionGroup give the
\* source its new parent.
Drop ==
    /\ dnd.source # NoElement
    /\ dnd.target # NoElement
    /\ LET source == dnd.source
           targetConnectionProfileGroup == getTargetGroup(dnd.target, parent)
           oldParent == parent[source]
       IN IF isDropAllowed(targetConnectionProfileGroup, oldParent, source)
          THEN /\ parent' = [parent EXCEPT ![source] = targetConnectionProfileGroup]
               /\ dnd' = [dnd EXCEPT
                            !.source = NoElement, !.target = NoElement,
                            !.drop = [moved |-> IF source \in Profiles THEN "profile"
                                                ELSE "group",
                                      underOwnSubtree |->
                                          OnOwnSubtree(source,
                                                       targetConnectionProfileGroup,
                                                       parent)]]
          ELSE /\ dnd' = [dnd EXCEPT !.source = NoElement, !.target = NoElement,
                                     !.drop = NoDrop]
               /\ UNCHANGED parent
    /\ isInDragAndDrop' = FALSE

\* dropAbort: the drag ends with no drop.
DropAbort ==
    /\ dnd.source # NoElement
    /\ isInDragAndDrop' = FALSE
    /\ dnd' = [dnd EXCEPT !.source = NoElement, !.target = NoElement]
    /\ UNCHANGED parent

\* The drags of the server tree: a drag starts, onDragOver is asked for each
\* element the pointer passes, and the drag ends in a drop on the element
\* onDragOver last accepted or in no drop.
DragNext ==
    \/ \E source \in Draggable : OnDragStart(source) /\ UNCHANGED toolVars
    \/ \E targetElement \in DropTargets \cup {OtherNode} :
          \E canChange \in BOOLEAN : OnDragOver(targetElement, canChange)
          /\ UNCHANGED toolVars
    \/ Drop /\ UNCHANGED toolVars
    \/ DropAbort /\ UNCHANGED toolVars

DragSpec == Init /\ [][DragNext]_vars

\* ---------------------------------------------------------------- the gate
GateCalls == {c \in Calls : call[c].kind \in {"find", "run"}}

\* findOrInstallNetCore has returned to its caller.
GateReturned(c) == c \in GateCalls /\ call[c].gate # "none"

VersionCheckSucceeded(c) == call[c].supported = "true"

VersionCheckFailed(c) == call[c].supported \in {"false", "undefined"}

\* C1, as stated: whatever the installation, the version check and the
\* do-not-ask-again setting are, findOrInstallNetCore returns true if and
\* only if the version check succeeded and the installation path exists.
C1_TrueIffChecksPass ==
    \A c \in Calls :
        GateReturned(c) =>
            (call[c].gate = "true" <=> (call[c].present /\ VersionCheckSucceeded(c)))

\* C1, amended: findOrInstallNetCore returns true if and only if the
\* installation path exists and the version check succeeded, or a check
\* failed and the do-not-ask-again setting it then read is true.
C1_TrueIffChecksPassOrSuppressed ==
    \A c \in Calls :
        GateReturned(c) =>
            (call[c].gate = "true" <=>
                \/ call[c].present /\ VersionCheckSucceeded(c)
                \/ call[c].flagRead = "true")

\* A call returned true although no installation exists: the setting is on.
C1_Witness ==
    \E c \in Calls :
        /\ GateReturned(c) /\ call[c].gate = "true"
        /\ ~call[c].present /\ call[c].flagRead = "true"

C3_OnePromptThenFalse ==
    \A c \in GateCalls :
        /\ call[c].prompts <= 1
        /\ ((~call[c].present \/ VersionCheckFailed(c)) /\ call[c].flagRead = "false") =>
              /\ call[c].prompts = 1
              /\ call[c].pc \in {"prompt", "done"}
              /\ (call[c].pc = "prompt" <=> call[c].picked = "none")
              /\ (call[c].pc = "done" => call[c].gate = "false")

\* A prompted call returned false after the user picked suppress-permanently.
C3_Witness ==
    \E c \in GateCalls :
        /\ call[c].pc = "done" /\ call[c].gate = "false" /\ call[c].prompts = 1
        /\ call[c].picked = DoNotAskAgain /\ VersionCheckFailed(c)

\* C4: when the gate returned false, runDotnetCommand spawns no command and
\* throws the tool-missing error exactly when the installation was found
\* absent, else the version-unsupported error carrying the version its
\* version check detected; when the gate returned true, it delegates to
\* runStreamedCommand.
C4_GateDecidesRun ==
    \A c \in Calls :
        (call[c].kind = "run" /\ call[c].gate # "none") =>
            /\ call[c].gate = "false" =>
                  /\ ~call[c].spawned
                  /\ call[c].outcome = "rejected"
                  /\ (call[c].error.kind = "NetCoreInstallationConfirmation"
                         <=> ~call[c].present)
                  /\ call[c].present =>
                        call[c].error.kind =
                            "NetCoreSupportedVersionInstallationConfirmation"
                  /\ call[c].supported = "false" =>
                        call[c].error.version = call[c].reported
            /\ call[c].gate = "true" => call[c].spawned

\* ------------------------------------------------------- streamed commands
LinesOf(c) == SelectSeq(outputChannel, LAMBDA l : l.call = c)

IsTerminal(l) == l.header \in {"exited with code: ", "exited with signal: "}

TerminalLinesOf(c) == SelectSeq(LinesOf(c), IsTerminal)

Chars(text) == {text[i] : i \in 1..Len(text)}

\* C5: the string runStreamedCommand resolves with is the stdout chunks of
\* the command concatenated in their order of arrival, and holds nothing the
\* command wrote to stderr, however the chunks of the two streams interleave.
C5_ResultIsStdout ==
    \A c \in Calls :
        (call[c].pc = "done" /\ call[c].outcome = "resolved") =>
            /\ call[c].result = Join(call[c].script.out)
            /\ Chars(call[c].result) \cap
                   (Chars(Join(call[c].script.err)) \ {NL, CR}) = {}

\* A command with two stdout chunks and a stderr chunk resolved.
C5_Witness ==
    \E c \in Calls :
        /\ call[c].pc = "done" /\ call[c].outcome = "resolved"
        /\ call[c].script = Mixed
        /\ call[c].result = <<"a", CR, NL, "b", "c", NL>>

\* C6: the sink holds no terminal line of a streamed command before its
\* process exits and exactly one from then on: the exit code when there is
\* one, the signal name when a signal ended the process.
C6_OneTerminalLine ==
    \A c \in Calls :
        call[c].spawned =>
            LET term == TerminalLinesOf(c)
            IN IF call[c].exited
               THEN /\ Len(term) = 1
                    /\ call[c].script.code # Null =>
                          /\ term[1].header = "exited with code: "
                          /\ term[1].text = call[c].script.code
                    /\ call[c].script.code = Null =>
                          /\ term[1].header = "exited with signal: "
                          /\ term[1].text = call[c].script.signal
                          /\ call[c].script.signal # Null
               ELSE term = << >>

\* A command ended by a signal has its signal line in the sink.
C6_Witness ==
    \E c \in Calls :
        /\ call[c].exited /\ call[c].script = Killed
        /\ TerminalLinesOf(c) = << Line(c, "exited with signal: ", <<"SIGTERM">>, TRUE) >>

\* C7: of one streamed command the sink holds the echo of the command line
\* first and the terminal line after all its output lines; a command that
\* prints the one line hello leaves exactly `stdout: hello` and then the
\* exit-code line after the echo.
C7_EchoOutputThenExit ==
    \A c \in Calls :
        (call[c].kind = "stream" /\ call[c].pc = "done" /\ ~call[c].script.fail) =>
            LET mine == LinesOf(c)
            IN /\ mine # << >>
               /\ mine[1].header = "> "
               /\ IsTerminal(mine[Len(mine)])
               /\ call[c].script = Hello =>
                     SubSeq(mine, 2, Len(mine)) =
                         << Line(c, "stdout: ", <<"h", "e", "l", "l", "o">>, TRUE),
                            Line(c, "exited with code: ", <<"0">>, TRUE) >>

\* ------------------------------------------------------- the version check
\* C8: a spawn-level error of the version child does not end
\* findOrInstallNetCore with a rejection: the version check yields undefined
\* and the gate goes on as for a failed check, to the prompt and false, or to
\* true when the do-not-ask-again setting is on.
C8_SpawnErrorIsIndeterminate ==
    \A c \in GateCalls :
        (call[c].vfail /\ call[c].pc # "verWait") =>
            /\ call[c].supported = "undefined"
            /\ call[c].flagRead # "unread"
            /\ (call[c].flagRead = "false" => call[c].prompts = 1)
            /\ (call[c].pc = "done" =>
                   /\ call[c].gate # "none"
                   /\ (call[c].gate = "false" <=> call[c].flagRead = "false"))
            /\ (call[c].kind = "find" => call[c].outcome = "none")

\* The version child failed to spawn; the call prompted and returned false.
C8_Witness ==
    \E c \in GateCalls :
        /\ call[c].vfail /\ call[c].supported = "undefined"
        /\ call[c].pc = "done" /\ call[c].gate = "false" /\ call[c].prompts = 1

ReportedIsSupported(c) ==
    /\ ~SemverThrows(call[c].reported, MinVersion)
    /\ SemverGte(call[c].reported, MinVersion)

\* C10: for every version string the version child reports,
\* isNetCoreVersionSupported returns true if and only if that version is at
\* least 3.1.0 in semantic-version order (3.1.0 itself being supported).
C10_SupportedIffAtLeastFloor ==
    \A c \in GateCalls :
        (call[c].supported \in {"true", "false"} /\ call[c].reported # << >>) =>
            (call[c].supported = "true" <=> ReportedIsSupported(c))

\* ------------------------------------------------------- the cached fields
\* The error kind the checks of a call determine: the installation absent,
\* the version found unsupported, or neither.
OwnError(c) ==
    IF ~call[c].present THEN netCoreNotPresent
    ELSE IF call[c].supported = "false" THEN netCoreVersionNotSupported
    ELSE noError

\* C11: when a findOrInstallNetCore call of a sequence of calls made one
\* after the other has ended, the cached error kind is the one its own
\* presence and version checks determined and the cached version string is
\* the one its own version child delivered, never a value an earlier call
\* left there.
C11_CacheIsOfThisCall ==
    \A c \in Calls :
        (call[c].kind = "find" /\ call[c].pc = "done") =>
            /\ netCoreError = OwnError(c)
            /\ netCoreSdkInstalledVersion = call[c].written

\* ------------------------------------------------------- interleaved calls
\* C12, the mechanism: what a call reports, in its prompt or in the error
\* runDotnetCommand throws for a gate that returned false, is the message of
\* the cached error kind and version string as they are when it reports,
\* whichever call stored them.
C12_ReportsReadTheCache ==
    [][ \A c \in Calls :
          /\ call'[c].prompts > call[c].prompts =>
                call'[c].message =
                    InstallDialogMessage(netCoreError', netCoreSdkInstalledVersion')
          /\ (call'[c].kind = "run" /\ call[c].gate = "none"
                                    /\ call'[c].gate = "false") =>
                call'[c].error =
                    InstallDialogMessage(netCoreError', netCoreSdkInstalledVersion')
      ]_vars

\* C12, the state: with two calls interleaved on one NetCoreTool, a
\* runDotnetCommand whose own check found the installation absent (and which
\* ran no version child) has thrown the version-unsupported error, with the
\* version string the version child of the other call, still under way,
\* stored.
C12_Witness ==
    \E c \in Calls : \E d \in Calls \ {c} :
        /\ call[c].kind = "run" /\ call[c].pc = "done" /\ call[c].gate = "false"
        /\ ~call[c].present /\ ~call[c].vspawned
        /\ call[c].error # GateError(OwnError(c), call[c].written)
        /\ call[c].error.kind = "NetCoreSupportedVersionInstallationConfirmation"
        /\ call[d].pc \in InFlight /\ call[d].present
        /\ call[d].written # Undefined
        /\ call[c].error.version = call[d].written

\* ----------------------------------------------------------- drag and drop
\* No connection group is, along the parents, above itself.
Acyclic == \A g \in Groups : g \notin Up(parent[g], {}, parent)

====
